---- MODULE Spec2Model ----
(***************************************************************************)
(* STDPConnection (models/stdp_connection.h): one synapse with             *)
(* spike-timing dependent plasticity, its configuration (get_status,       *)
(* set_status, set_weight) and its delivery protocol (send).               *)
(*                                                                         *)
(* A double_t is a fixed-point number: the integer n stands for n / Scale. *)
(* Products and quotients are rounded to the nearest unit, as a floating   *)
(* point product is rounded to the nearest representable value.           *)
(***************************************************************************)
EXTENDS Integers, Sequences, FiniteSets, TLC

\* ------------------------------------------------------------- double_t

Scale == 10000

Abs(x) == IF x < 0 THEN -x ELSE x

Sgn(x) == IF x < 0 THEN -1 ELSE 1

\* a * b for non-negative a, b; the operands are split so that no
\* intermediate value leaves the 32-bit range
MulAbs(a, b) ==
  LET qa == a \div Scale
      ra == a % Scale
      qb == b \div Scale
      rb == b % Scale
  IN  qa * qb * Scale + qa * rb + ra * qb + (ra * rb + Scale \div 2) \div Scale

Mul(a, b) == Sgn(a) * Sgn(b) * MulAbs(Abs(a), Abs(b))

\* a / b for a >= 0, b > 0, by long division in two base-100 digits
DivAbs(a, b) ==
  LET q  == a \div b
      r1 == (a % b) * 100
      d1 == r1 \div b
      r2 == (r1 % b) * 100
      d2 == (r2 + b \div 2) \div b
  IN  q * Scale + d1 * 100 + d2

Div(a, b) == Sgn(a) * Sgn(b) * DivAbs(Abs(a), Abs(b))

\* std::exp on the grid of arguments j/20, j in -80..80 (ExpTab[j + 81] is
\* exp(j/20) rounded to the nearest unit); no value outside the grid
ExpTab ==
  << 183, 193, 202, 213, 224, 235, 247, 260, 273, 287,
     302, 317, 334, 351, 369, 388, 408, 429, 450, 474,
     498, 523, 550, 578, 608, 639, 672, 707, 743, 781,
     821, 863, 907, 954, 1003, 1054, 1108, 1165, 1225, 1287,
     1353, 1423, 1496, 1572, 1653, 1738, 1827, 1920, 2019, 2122,
     2231, 2346, 2466, 2592, 2725, 2865, 3012, 3166, 3329, 3499,
     3679, 3867, 4066, 4274, 4493, 4724, 4966, 5220, 5488, 5769,
     6065, 6376, 6703, 7047, 7408, 7788, 8187, 8607, 9048, 9512,
     10000, 10513, 11052, 11618, 12214, 12840, 13499, 14191, 14918, 15683,
     16487, 17333, 18221, 19155, 20138, 21170, 22255, 23396, 24596, 25857,
     27183, 28577, 30042, 31582, 33201, 34903, 36693, 38574, 40552, 42631,
     44817, 47115, 49530, 52070, 54739, 57546, 60496, 63598, 66859, 70287,
     73891, 77679, 81662, 85849, 90250, 94877, 99742, 104856, 110232, 115883,
     121825, 128071, 134637, 141540, 148797, 156426, 164446, 172878, 181741, 191060,
     200855, 211153, 221980, 233361, 245325, 257903, 271126, 285027, 299641, 315004,
     331155, 348133, 365982, 384747, 404473, 425211, 447012, 469931, 494024, 519354,
     545982 >>

exp(x) ==
  CASE (x * 20) % Scale = 0 -> ExpTab[(x * 20) \div Scale + 81]

\* std::sqrt: the integer r with r * r <= x * Scale < (r + 1) * (r + 1),
\* found by its hundreds first (arguments up to 4.0)
sqrt(x) ==
  LET n == x * Scale
      c == CHOOSE c \in 0..200 : (100 * c) * (100 * c) <= n /\ n < (100 * c + 100) * (100 * c + 100)
  IN  CHOOSE r \in (100 * c)..(100 * c + 99) : r * r <= n /\ n < (r + 1) * (r + 1)

\* std::pow( x, y ) is NaN for a negative base and a non-integer exponent
pow_is_nan(x, y) == x < 0 /\ y % Scale # 0

\* std::pow( x, y ) for the exponents 0, 1/2 and 1; pow( x, 0 ) is 1 for every x
pow(x, y) ==
  CASE y = 0 -> Scale
    [] y = Scale -> x
    [] y * 2 = Scale /\ x >= 0 -> sqrt(x)

\* ------------------------------------------------------------ the inputs

\* STDPConnection(): the members of a default-constructed synapse
\* (weight 1.0, tau_plus 20.0, lambda 0.01, alpha 1.0, mu_plus 1.0,
\* mu_minus 1.0, Wmax 100.0, Kplus 0.0)
STDPConnection ==
  [weight_ |-> 10000, tau_plus_ |-> 200000, lambda_ |-> 100, alpha_ |-> 10000,
   mu_plus_ |-> 10000, mu_minus_ |-> 10000, Wmax_ |-> 1000000, Kplus_ |-> 0]

\* ConnectionBase: the connection's dendritic delay (1 ms), its delay in
\* steps, its receptor port and its target
get_delay == 10000
get_delay_steps == 10
get_rport == 2
get_target == "target"

\* bounds of the model
MaxConfig == 2
MaxHist == 2

\* time stamps of the pre-synaptic spikes delivered (10 and 30 ms) and of
\* the post-synaptic spikes the target records (5, 9, 19 and 25 ms)
PreTimes == {100000, 300000}
PostTimes == {50000, 90000, 190000, 250000}

\* values the target's trace get_K_value() takes (0.0 and 0.2)
KValues == {0, 2000}

\* weights given to set_weight (-10.0, 0.0, 50.0, 100.0, 150.0)
Weights == {-100000, 0, 500000, 1000000, 1500000}

\* dictionaries given to set_status: one key each (weight 50.0, Wmax 60.0,
\* tau_plus 10.0, lambda 0.1, alpha 0.5), and the documented choices of the
\* two exponents other than the default (additive, Guetig, van Rossum)
StatusDicts ==
  {[weight |-> 500000], [Wmax |-> 600000], [tau_plus |-> 100000], [lambda |-> 1000],
   [alpha |-> 5000]}
    \cup {[mu_plus |-> 0, mu_minus |-> 0], [mu_plus |-> 5000, mu_minus |-> 5000],
          [mu_plus |-> 0, mu_minus |-> 10000]}

\* -------------------------------------------------------------- the state

VARIABLES
  weight_, tau_plus_, lambda_, alpha_, mu_plus_, mu_minus_, Wmax_, Kplus_,
  t_lastspike,   \* the connector's time of the last spike sent (0 initially)
  history,       \* the target's deque of post-synaptic spike times, increasing
  pc,            \* position in send: "idle" outside a delivery
  t_spike,       \* stamp of the event being (or last) delivered
  start, finish, \* the iterators get_history returned (indices into history)
  e,             \* the event object of the delivery
  sent,          \* the events e() has handed to the target in this delivery
  op,            \* the last operation completed
  entry,         \* the synapse and the arguments at the entry of send
  ks,            \* the trace magnitudes facilitate_ was called with in this delivery
  visited,       \* the history indices dereferenced in this delivery
  kminus,        \* the calls of get_K_value in this delivery: argument and value
  nconfig        \* calls of set_status and set_weight so far (at most MaxConfig)

synapse == <<weight_, tau_plus_, lambda_, alpha_, mu_plus_, mu_minus_, Wmax_, Kplus_>>

delivery == <<e, sent, entry, ks, visited, kminus>>

vars == <<weight_, tau_plus_, lambda_, alpha_, mu_plus_, mu_minus_, Wmax_, Kplus_,
          t_lastspike, history, pc, t_spike, start, finish, e, sent, op, entry,
          ks, visited, kminus, nconfig>>

NoEvent == [stamp |-> 0, receiver |-> "none", weight |-> 0, delay |-> 0, rport |-> 0]

NoEntry == [weight |-> 0, Kplus |-> 0, t_lastspike |-> 0, start |-> 1, finish |-> 1]

\* outside a delivery nothing of the last delivery is kept
NoDelivery ==
  /\ e' = NoEvent
  /\ sent' = <<>>
  /\ entry' = NoEntry
  /\ ks' = <<>>
  /\ visited' = <<>>
  /\ kminus' = <<>>

Init ==
  /\ weight_ = STDPConnection.weight_
  /\ tau_plus_ = STDPConnection.tau_plus_
  /\ lambda_ = STDPConnection.lambda_
  /\ alpha_ = STDPConnection.alpha_
  /\ mu_plus_ = STDPConnection.mu_plus_
  /\ mu_minus_ = STDPConnection.mu_minus_
  /\ Wmax_ = STDPConnection.Wmax_
  /\ Kplus_ = STDPConnection.Kplus_
  /\ t_lastspike = 0
  /\ history = <<>>
  /\ pc = "idle"
  /\ t_spike = 0
  /\ start = 1
  /\ finish = 1
  /\ e = NoEvent
  /\ sent = <<>>
  /\ op = "new"
  /\ entry = NoEntry
  /\ ks = <<>>
  /\ visited = <<>>
  /\ kminus = <<>>
  /\ nconfig = 0

\* ------------------------------------------------------ WeightUpdateRule

\* facilitate_ without the ceiling: norm_w * Wmax_ is returned whatever norm_w
facilitate_no_ceiling(w, kplus) ==
  LET base == Scale - Div(w, Wmax_)
  IN  IF pow_is_nan(base, mu_plus_)
      THEN Wmax_
      ELSE Mul(Div(w, Wmax_) + Mul(Mul(lambda_, pow(base, mu_plus_)), kplus), Wmax_)

facilitate_(w, kplus) ==
  LET base == Scale - Div(w, Wmax_)
  IN  IF pow_is_nan(base, mu_plus_)
      THEN Wmax_   \* norm_w is NaN, and NaN < 1.0 is false
      ELSE LET norm_w == Div(w, Wmax_) + Mul(Mul(lambda_, pow(base, mu_plus_)), kplus)
           IN  IF norm_w < Scale THEN Mul(norm_w, Wmax_) ELSE Wmax_

\* depress_ returning the normalised weight
depress_unscaled(w, k) ==
  LET base == Div(w, Wmax_)
  IN  IF pow_is_nan(base, mu_minus_)
      THEN 0
      ELSE LET norm_w == base - Mul(Mul(Mul(alpha_, lambda_), pow(base, mu_minus_)), k)
           IN  IF norm_w > 0 THEN norm_w ELSE 0

depress_(w, k) ==
  LET base == Div(w, Wmax_)
  IN  IF pow_is_nan(base, mu_minus_)
      THEN 0       \* norm_w is NaN, and NaN > 0.0 is false
      ELSE LET norm_w == base - Mul(Mul(Mul(alpha_, lambda_), pow(base, mu_minus_)), k)
           IN  IF norm_w > 0 THEN Mul(norm_w, Wmax_) ELSE 0

\* ---------------------------------------------------------- configuration

get_status ==
  [weight |-> weight_, tau_plus |-> tau_plus_, lambda |-> lambda_, alpha |-> alpha_,
   mu_plus |-> mu_plus_, mu_minus |-> mu_minus_, Wmax |-> Wmax_, size_of |-> 64]

updateValue(d, key, old) == IF key \in DOMAIN d THEN d[key] ELSE old

\* set_status that reads mu_plus twice and Wmax never
set_status_without_Wmax(s, d) ==
  [weight_   |-> updateValue(d, "weight", s.weight_),
   tau_plus_ |-> updateValue(d, "tau_plus", s.tau_plus_),
   lambda_   |-> updateValue(d, "lambda", s.lambda_),
   alpha_    |-> updateValue(d, "alpha", s.alpha_),
   mu_plus_  |-> updateValue(d, "mu_plus", s.mu_plus_),
   mu_minus_ |-> updateValue(d, "mu_minus", s.mu_minus_),
   Wmax_     |-> updateValue(d, "mu_plus", s.Wmax_),
   Kplus_    |-> s.Kplus_]

\* set_status( d ) on a synapse whose members are s
set_status(s, d) ==
  [weight_   |-> updateValue(d, "weight", s.weight_),
   tau_plus_ |-> updateValue(d, "tau_plus", s.tau_plus_),
   lambda_   |-> updateValue(d, "lambda", s.lambda_),
   alpha_    |-> updateValue(d, "alpha", s.alpha_),
   mu_plus_  |-> updateValue(d, "mu_plus", s.mu_plus_),
   mu_minus_ |-> updateValue(d, "mu_minus", s.mu_minus_),
   Wmax_     |-> updateValue(d, "Wmax", s.Wmax_),
   Kplus_    |-> s.Kplus_]

\* the members of the synapse
this ==
  [weight_ |-> weight_, tau_plus_ |-> tau_plus_, lambda_ |-> lambda_, alpha_ |-> alpha_,
   mu_plus_ |-> mu_plus_, mu_minus_ |-> mu_minus_, Wmax_ |-> Wmax_, Kplus_ |-> Kplus_]

\* the members of the synapse become those of s
Assign(s) ==
  /\ weight_' = s.weight_
  /\ tau_plus_' = s.tau_plus_
  /\ lambda_' = s.lambda_
  /\ alpha_' = s.alpha_
  /\ mu_plus_' = s.mu_plus_
  /\ mu_minus_' = s.mu_minus_
  /\ Wmax_' = s.Wmax_
  /\ Kplus_' = s.Kplus_

\* set_status( d, cm ) with a dictionary of the caller
SetStatus ==
  /\ pc = "idle"
  /\ nconfig < MaxConfig
  /\ \E d \in StatusDicts : Assign(set_status(this, d))
  /\ op' = "set_status"
  /\ nconfig' = nconfig + 1
  /\ NoDelivery
  /\ UNCHANGED <<t_lastspike, history, pc, t_spike, start, finish>>

\* set_weight( w )
SetWeight ==
  /\ pc = "idle"
  /\ nconfig < MaxConfig
  /\ \E w \in Weights : weight_' = w
  /\ op' = "set_weight"
  /\ nconfig' = nconfig + 1
  /\ NoDelivery
  /\ UNCHANGED <<tau_plus_, lambda_, alpha_, mu_plus_, mu_minus_, Wmax_, Kplus_,
                 t_lastspike, history, pc, t_spike, start, finish>>

\* get_status( d ) followed by set_status( d ) of the exported dictionary on
\* the same synapse
Reimport ==
  /\ pc = "idle"
  /\ nconfig < MaxConfig
  /\ Assign(set_status(this, get_status))
  /\ op' = "reimport"
  /\ nconfig' = nconfig + 1
  /\ NoDelivery
  /\ UNCHANGED <<t_lastspike, history, pc, t_spike, start, finish>>

\* get_status( d ) followed by set_status( d ) of the exported dictionary on
\* a freshly constructed synapse, which takes the place of the exporting
\* one; its connector has sent no spike yet
ReimportFresh ==
  /\ pc = "idle"
  /\ nconfig < MaxConfig
  /\ Assign(set_status(STDPConnection, get_status))
  /\ t_lastspike' = 0
  /\ op' = "reimport_fresh"
  /\ nconfig' = nconfig + 1
  /\ NoDelivery
  /\ UNCHANGED <<history, pc, t_spike, start, finish>>

\* ------------------------------------------------------- HistoryProvider

\* the target emits a spike and appends it to its history
PostSpike ==
  /\ pc = "idle"
  /\ Len(history) < MaxHist
  /\ \E t \in PostTimes :
       /\ \A i \in 1..Len(history) : history[i] < t
       /\ history' = Append(history, t)
  /\ op' = "post_spike"
  /\ NoDelivery
  /\ UNCHANGED <<synapse, t_lastspike, pc, t_spike, start, finish, nconfig>>

\* get_history( t1, t2, &start, &finish ): the records with t1 < t_ <= t2
get_history_start(t1) ==
  1 + Cardinality({i \in 1..Len(history) : history[i] <= t1})

get_history_finish(t2) ==
  1 + Cardinality({i \in 1..Len(history) : history[i] <= t2})

\* ------------------------------------------------------------------ send

\* lines 216-233: the stamp, the delay and the iterators of the provider.
\* The provider is a collaborator: the range it hands back ends where its
\* contract says and starts there or earlier, at any record up to the lower
\* end of the window (the record at t_lastspike - delay among them).
SendBegin ==
  /\ pc = "idle"
  /\ \E t \in PreTimes :
       /\ t > t_spike
       /\ t_spike' = t
       /\ e' = [NoEvent EXCEPT !.stamp = t]
       /\ \E s \in 1..get_history_start(t_lastspike - get_delay) :
            LET f == get_history_finish(t - get_delay)
            IN  /\ start' = s
                /\ finish' = f
                /\ entry' = [weight |-> weight_, Kplus |-> Kplus_,
                             t_lastspike |-> t_lastspike, start |-> s, finish |-> f]
  /\ sent' = <<>>
  /\ ks' = <<>>
  /\ visited' = <<>>
  /\ kminus' = <<>>
  /\ pc' = "loop"
  /\ UNCHANGED <<synapse, t_lastspike, history, op, nconfig>>

\* the loop with ++start moved behind the continue: a coincident record is
\* read again and again
Loop_increment_after_continue ==
  /\ pc = "loop"
  /\ start # finish
  /\ LET minus_dt == t_lastspike - (history[start] + get_delay)
         k == Mul(Kplus_, exp(Div(minus_dt, tau_plus_)))
     IN  /\ visited' = Append(visited, start)
         /\ IF minus_dt = 0
            THEN UNCHANGED <<start, weight_, ks>>
            ELSE /\ start' = start + 1
                 /\ weight_' = facilitate_(weight_, k)
                 /\ ks' = Append(ks, k)
  /\ UNCHANGED <<tau_plus_, lambda_, alpha_, mu_plus_, mu_minus_, Wmax_, Kplus_,
                 t_lastspike, history, pc, t_spike, finish, e, sent, op, entry,
                 kminus, nconfig>>

\* the loop with the sign of the exponent turned: the trace grows with the
\* distance of the post-synaptic spike
Loop_exp_sign ==
  /\ pc = "loop"
  /\ start # finish
  /\ LET minus_dt == t_lastspike - (history[start] + get_delay)
         k == Mul(Kplus_, exp(Div(-minus_dt, tau_plus_)))
     IN  /\ start' = start + 1
         /\ visited' = Append(visited, start)
         /\ IF minus_dt = 0
            THEN UNCHANGED <<weight_, ks>>
            ELSE /\ weight_' = facilitate_(weight_, k)
                 /\ ks' = Append(ks, k)
  /\ UNCHANGED <<tau_plus_, lambda_, alpha_, mu_plus_, mu_minus_, Wmax_, Kplus_,
                 t_lastspike, history, pc, t_spike, finish, e, sent, op, entry,
                 kminus, nconfig>>

\* the loop as a batch update: every increment is computed from the weight
\* at the entry of send
Loop_from_entry ==
  /\ pc = "loop"
  /\ start # finish
  /\ LET minus_dt == t_lastspike - (history[start] + get_delay)
         k == Mul(Kplus_, exp(Div(minus_dt, tau_plus_)))
     IN  /\ start' = start + 1
         /\ visited' = Append(visited, start)
         /\ IF minus_dt = 0
            THEN UNCHANGED <<weight_, ks>>
            ELSE /\ weight_' = weight_ + facilitate_(entry.weight, k) - entry.weight
                 /\ ks' = Append(ks, k)
  /\ UNCHANGED <<tau_plus_, lambda_, alpha_, mu_plus_, mu_minus_, Wmax_, Kplus_,
                 t_lastspike, history, pc, t_spike, finish, e, sent, op, entry,
                 kminus, nconfig>>

\* the loop with minus_dt measured from the stamp of the event delivered
Loop_dt_from_t_spike ==
  /\ pc = "loop"
  /\ start # finish
  /\ LET minus_dt == t_spike - (history[start] + get_delay)
         k == Mul(Kplus_, exp(Div(minus_dt, tau_plus_)))
     IN  /\ start' = start + 1
         /\ visited' = Append(visited, start)
         /\ IF minus_dt = 0
            THEN UNCHANGED <<weight_, ks>>
            ELSE /\ weight_' = facilitate_(weight_, k)
                 /\ ks' = Append(ks, k)
  /\ UNCHANGED <<tau_plus_, lambda_, alpha_, mu_plus_, mu_minus_, Wmax_, Kplus_,
                 t_lastspike, history, pc, t_spike, finish, e, sent, op, entry,
                 kminus, nconfig>>

\* lines 236-243: one pass of the facilitation loop
Loop ==
  /\ pc = "loop"
  /\ start # finish
  /\ LET minus_dt == t_lastspike - (history[start] + get_delay)
         k == Mul(Kplus_, exp(Div(minus_dt, tau_plus_)))
     IN  /\ start' = start + 1
         /\ visited' = Append(visited, start)
         /\ IF minus_dt = 0
            THEN UNCHANGED <<weight_, ks>>
            ELSE /\ weight_' = facilitate_(weight_, k)
                 /\ ks' = Append(ks, k)
  /\ UNCHANGED <<tau_plus_, lambda_, alpha_, mu_plus_, mu_minus_, Wmax_, Kplus_,
                 t_lastspike, history, pc, t_spike, finish, e, sent, op, entry,
                 kminus, nconfig>>

\* the depression step left out when the history window is empty
Depress_skipped_on_empty_window ==
  /\ pc = "loop"
  /\ start = finish
  /\ IF entry.start = entry.finish
     THEN UNCHANGED <<weight_, kminus>>
     ELSE \E k \in KValues :
            /\ weight_' = depress_(weight_, k)
            /\ kminus' = Append(kminus, [at |-> t_spike - get_delay, value |-> k])
  /\ pc' = "forward"
  /\ UNCHANGED <<tau_plus_, lambda_, alpha_, mu_plus_, mu_minus_, Wmax_, Kplus_,
                 t_lastspike, history, t_spike, start, finish, e, sent, op, entry,
                 ks, visited, nconfig>>

\* line 236, the loop's exit, and line 246: the depression step with the
\* target's trace at t_spike - dendritic_delay
Depress ==
  /\ pc = "loop"
  /\ start = finish
  /\ \E k \in KValues :
       /\ weight_' = depress_(weight_, k)
       /\ kminus' = Append(kminus, [at |-> t_spike - get_delay, value |-> k])
  /\ pc' = "forward"
  /\ UNCHANGED <<tau_plus_, lambda_, alpha_, mu_plus_, mu_minus_, Wmax_, Kplus_,
                 t_lastspike, history, t_spike, start, finish, e, sent, op, entry,
                 ks, visited, nconfig>>

\* the event stamped with the weight send was entered with
Forward_stale_weight ==
  /\ pc = "forward"
  /\ e' = [e EXCEPT !.receiver = get_target, !.weight = entry.weight,
                    !.delay = get_delay_steps, !.rport = get_rport]
  /\ sent' = Append(sent, e')
  /\ pc' = "advance"
  /\ UNCHANGED <<synapse, t_lastspike, history, t_spike, start, finish, op, entry,
                 ks, visited, kminus, nconfig>>

\* lines 248-253: the event is stamped and handed to the target
Forward ==
  /\ pc = "forward"
  /\ e' = [e EXCEPT !.receiver = get_target, !.weight = weight_,
                    !.delay = get_delay_steps, !.rport = get_rport]
  /\ sent' = Append(sent, e')
  /\ pc' = "advance"
  /\ UNCHANGED <<synapse, t_lastspike, history, t_spike, start, finish, op, entry,
                 ks, visited, kminus, nconfig>>

\* the trace decayed but not incremented
Advance_no_increment ==
  /\ pc = "advance"
  /\ Kplus_' = Mul(Kplus_, exp(Div(t_lastspike - t_spike, tau_plus_)))
  /\ t_lastspike' = t_spike
  /\ pc' = "idle"
  /\ op' = "send"
  /\ UNCHANGED <<weight_, tau_plus_, lambda_, alpha_, mu_plus_, mu_minus_, Wmax_,
                 history, t_spike, start, finish, e, sent, entry, ks, visited,
                 kminus, nconfig>>

\* line 255: the trace is advanced; send returns and the connector records
\* the stamp as the time of the last spike sent
Advance ==
  /\ pc = "advance"
  /\ Kplus_' = Mul(Kplus_, exp(Div(t_lastspike - t_spike, tau_plus_))) + Scale
  /\ t_lastspike' = t_spike
  /\ pc' = "idle"
  /\ op' = "send"
  /\ UNCHANGED <<weight_, tau_plus_, lambda_, alpha_, mu_plus_, mu_minus_, Wmax_,
                 history, t_spike, start, finish, e, sent, entry, ks, visited,
                 kminus, nconfig>>

Next ==
  \/ SetStatus
  \/ SetWeight
  \/ Reimport
  \/ ReimportFresh
  \/ PostSpike
  \/ SendBegin
  \/ Loop
  \/ Depress
  \/ Forward
  \/ Advance

Spec == Init /\ [][Next]_vars

\* ------------------------------------------------------------ properties

\* a delivery is under way
InDelivery == pc # "idle"

\* send has returned and nothing has happened since
Delivered == pc = "idle" /\ op = "send"

\* the facilitation loop has ended and the depression step is next
LoopDone == pc = "loop" /\ start = finish

\* the range the provider handed back is the window of its contract,
\* ( t_lastspike - delay, t_spike - delay ]
InContract ==
  /\ entry.start = get_history_start(entry.t_lastspike - get_delay)
  /\ entry.finish = get_history_finish(t_spike - get_delay)

\* minus_dt of the record at index i, in the delivery under way or just ended
minus_dt_of(i) == entry.t_lastspike - (history[i] + get_delay)

WeightInRange == 0 <= weight_ /\ weight_ <= Wmax_

\* C1 as stated: 0 <= weight <= Wmax at every observable point (after
\* construction, after every configuration step, after every delivery)
C1_Original == pc = "idle" => WeightInRange

\* C1, amended: 0 <= weight <= Wmax holds after construction, and a delivery
\* that starts with 0 <= weight <= Wmax keeps it at each of its steps and
\* when it returns (set_weight and set_status store what they are given)
C1_Amended ==
  /\ op = "new" => WeightInRange
  /\ (InDelivery \/ Delivered) /\ 0 <= entry.weight /\ entry.weight <= Wmax_
       => WeightInRange

\* a delivery that started within the bounds has facilitated with a positive
\* trace up to the ceiling and has returned
C1_Witness ==
  /\ Delivered
  /\ 0 <= entry.weight /\ entry.weight < Wmax_
  /\ Len(ks) > 0 /\ ks[1] > 0
  /\ weight_ = Wmax_

\* the indices lo, lo + 1, ..., hi - 1 in increasing order
Range(lo, hi) == [i \in 1..(hi - lo) |-> lo + i - 1]

\* the trace magnitude of the record at index i: the trace at the entry of
\* send, decayed over minus_dt
k_of(i) == Mul(entry.Kplus, exp(Div(minus_dt_of(i), tau_plus_)))

\* facilitate( ... facilitate( facilitate( w, k_of(idx[1]) ), k_of(idx[2]) ) ... )
RECURSIVE FacilitateAll(_, _)
FacilitateAll(w, idx) ==
  IF idx = <<>> THEN w
  ELSE FacilitateAll(facilitate_(w, k_of(Head(idx))), Tail(idx))

IsNotCoincident(i) == minus_dt_of(i) # 0

\* C2: a record with minus_dt = 0 is skipped. Every record of the range is
\* read exactly once and in order, coincident or not; facilitate_ is called
\* for the others only, so that the weight is what the other records alone
\* give; every pass of the loop advances the iterator by one, so the loop
\* is left after finish - start passes, with the whole range read.
C2_CoincidentSkipped ==
  /\ InDelivery \/ Delivered =>
       /\ entry.start <= start /\ start <= finish /\ finish = entry.finish
       /\ visited = Range(entry.start, start)
       /\ Len(ks) = Len(SelectSeq(visited, IsNotCoincident))
  /\ pc = "loop" =>
       weight_ = FacilitateAll(entry.weight, SelectSeq(visited, IsNotCoincident))
  /\ pc \in {"forward", "advance"} \/ Delivered => start = finish

\* the loop has ended on a range of several records in which a record that
\* is not the first is coincident and another has changed the weight
C2_Witness ==
  /\ LoopDone
  /\ \E i \in (entry.start + 1)..(entry.finish - 1) : minus_dt_of(i) = 0
  /\ Len(ks) >= 1
  /\ weight_ # entry.weight

\* C7: within one delivery, facilitation is a left fold over the records of
\* the history window in the order they are returned: after r1..rn the weight
\* is facilitate(...facilitate(facilitate(w0, k1), k2)..., kn), each ki the
\* trace at the entry of send decayed over minus_dt of ri (no ri coincident)
C7_LeftFold ==
  pc = "loop" /\ (\A j \in 1..Len(visited) : IsNotCoincident(visited[j])) =>
    weight_ = FacilitateAll(entry.weight, Range(entry.start, start))

\* one facilitation computed from the weight at the entry of send
FromEntry(i) == facilitate_(entry.weight, k_of(i)) - entry.weight

\* the loop has ended on a window of two records, and the weight differs
\* from the batch update computed from the initial weight
C7_Witness ==
  /\ LoopDone
  /\ \A j \in 1..Len(visited) : IsNotCoincident(visited[j])
  /\ entry.finish = entry.start + 2
  /\ weight_ # entry.weight + FromEntry(entry.start) + FromEntry(entry.start + 1)
  /\ weight_ < Wmax_

\* the trace at the entry of send decayed from t_lastspike to the stamp
Decayed == Mul(entry.Kplus, exp(Div(entry.t_lastspike - t_spike, tau_plus_)))

\* a delivery after an earlier one, with nothing handed back by the provider
SecondEmpty == entry.t_lastspike > 0 /\ entry.start = entry.finish

\* C3 as stated: before the depression step of the second delivery the
\* trace is trace_after_first * exp((t1 - t2)/tau_plus), and after the
\* delivery it is that value plus 1.0
C3_Original ==
  /\ LoopDone /\ SecondEmpty => Kplus_ = Decayed
  /\ Delivered /\ SecondEmpty => Kplus_ = Decayed + Scale

\* C3, amended: through the whole second delivery, its depression step
\* included, the trace is still trace_after_first; when the delivery has
\* returned it is trace_after_first * exp((t1 - t2)/tau_plus) + 1.0
C3_Amended ==
  /\ InDelivery /\ SecondEmpty => Kplus_ = entry.Kplus
  /\ Delivered /\ SecondEmpty => Kplus_ = Decayed + Scale

\* deliveries at 10 ms and 30 ms with tau_plus 20 ms: trace 1.0, then
\* exp(-1) + 1.0
C3_Witness ==
  /\ Delivered /\ SecondEmpty
  /\ entry.t_lastspike = 100000 /\ t_spike = 300000 /\ tau_plus_ = 200000
  /\ entry.Kplus = Scale
  /\ Kplus_ = 13679

\* a step that exports the status and imports it again
IsReimport == nconfig' # nconfig /\ op' \in {"reimport", "reimport_fresh"}

\* C4 as stated: export and re-import of the full key set, into the same
\* synapse or a fresh one, reproduces the weight, the trace and the six
\* parameters
C4_Original == [][IsReimport => synapse' = synapse]_vars

\* C4, amended: the weight and the six parameters are reproduced; the trace
\* is not exported: the same synapse keeps it, a fresh synapse has 0.0
C4_Amended ==
  [][IsReimport =>
       /\ <<weight_, tau_plus_, lambda_, alpha_, mu_plus_, mu_minus_, Wmax_>>'
            = <<weight_, tau_plus_, lambda_, alpha_, mu_plus_, mu_minus_, Wmax_>>
       /\ Kplus_' = IF op' = "reimport" THEN Kplus_ ELSE STDPConnection.Kplus_]_vars

\* a fresh synapse has imported, after a delivery, a status in which the
\* weight, Wmax and an exponent are not the constructor's
C4_Witness ==
  /\ pc = "idle"
  /\ op = "reimport_fresh"
  /\ t_spike > 0
  /\ weight_ # STDPConnection.weight_
  /\ Wmax_ # STDPConnection.Wmax_
  /\ Kplus_ = 0

\* the error of ( w / Wmax ) * Wmax: one unit of the normalised weight
Near(a, b) == Abs(a - b) <= Wmax_ \div Scale

\* C5 as stated: facilitate(w, 0) = w and depress(w, 0) = w for any weight
\* the synapse can hold
C5_Original ==
  /\ Near(facilitate_(weight_, 0), weight_)
  /\ Near(depress_(weight_, 0), weight_)

\* C5, amended: for 0 <= w <= Wmax both return w, up to the rounding of
\* ( w / Wmax ) * Wmax; for w > Wmax facilitate returns Wmax, for w < 0
\* depress returns 0.0
C5_Amended ==
  /\ WeightInRange =>
       Near(facilitate_(weight_, 0), weight_) /\ Near(depress_(weight_, 0), weight_)
  /\ weight_ > Wmax_ =>
       facilitate_(weight_, 0) = Wmax_ /\ Near(depress_(weight_, 0), weight_)
  /\ weight_ < 0 =>
       depress_(weight_, 0) = 0 /\ Near(facilitate_(weight_, 0), weight_)

\* the loop has called facilitate_ with a zero trace on a weight inside the
\* bounds, and the weight is what it was
C5_Witness ==
  /\ pc = "loop"
  /\ Len(ks) >= 1 /\ ks[1] = 0
  /\ 0 < weight_ /\ weight_ < Wmax_
  /\ Near(weight_, entry.weight)

\* the parameters of the end-to-end scenario: tau_plus 20, lambda 0.01,
\* alpha 1, mu_plus = mu_minus = 1, Wmax 100 (the delay is 1)
Scenario ==
  /\ tau_plus_ = 200000 /\ lambda_ = 100 /\ alpha_ = 10000
  /\ mu_plus_ = 10000 /\ mu_minus_ = 10000 /\ Wmax_ = 1000000
  /\ get_delay = 10000

\* its first delivery: weight 50, trace 0, at t = 10, nothing handed back
First ==
  /\ Scenario
  /\ entry.weight = 500000 /\ entry.Kplus = 0 /\ entry.t_lastspike = 0
  /\ t_spike = 100000
  /\ entry.start = entry.finish

\* its second delivery: weight 50, trace 1.0, at t = 30 with t_lastspike = 10
\* and the one post-synaptic spike at t = 25
Second ==
  /\ Scenario
  /\ entry.weight = 500000 /\ entry.Kplus = 10000 /\ entry.t_lastspike = 100000
  /\ t_spike = 300000
  /\ entry.finish = entry.start + 1 /\ history[entry.start] = 250000

\* a is b to two decimal places
About(a, b) == Abs(a - b) <= 100

\* C6 as stated: the first delivery leaves weight 50 and trace 1.0; the
\* second facilitates with trace magnitude 2.2255 to weight 51.11 and, with
\* the target's trace 0.2 at t = 29, depresses to 51.01
C6_Original ==
  /\ First /\ Delivered /\ kminus = <<[at |-> 90000, value |-> 0]>>
       => weight_ = 500000 /\ Kplus_ = 10000
  /\ Second /\ LoopDone => ks = <<22255>> /\ About(weight_, 511100)
  /\ Second /\ Delivered /\ kminus = <<[at |-> 290000, value |-> 2000]>>
       => About(weight_, 510100)

\* C6, amended: the first delivery leaves weight 50 and trace 1.0; the
\* second facilitates with trace magnitude 1.0 * exp(-16/20) = 0.4493 (less
\* than the stored trace) to weight 50.22 and depresses to 50.12
C6_Amended ==
  /\ First /\ Delivered /\ kminus = <<[at |-> 90000, value |-> 0]>>
       => weight_ = 500000 /\ Kplus_ = 10000
  /\ Second /\ LoopDone => ks = <<4493>> /\ About(weight_, 502200)
  /\ Second /\ Delivered /\ kminus = <<[at |-> 290000, value |-> 2000]>>
       => About(weight_, 501200)

\* the second delivery of the scenario has returned
C6_Witness ==
  /\ Second /\ Delivered /\ InContract
  /\ kminus = <<[at |-> 290000, value |-> 2000]>>
  /\ ks = <<4493>>
  /\ About(weight_, 501200)

\* the weight after the facilitation steps of the delivery
Facilitated == FacilitateAll(entry.weight, SelectSeq(visited, IsNotCoincident))

\* C8: every delivery applies exactly one depression step, after all its
\* facilitation steps and with the target's trace at t_spike - delay, and
\* exactly one trace advance, whatever the number of records; with an empty
\* window there is no facilitation, and the depression step and the trace
\* advance are applied all the same
C8_OneDepression ==
  /\ pc = "loop" => kminus = <<>>
  /\ pc \in {"forward", "advance"} \/ Delivered =>
       /\ Len(visited) = entry.finish - entry.start
       /\ Len(kminus) = 1
       /\ kminus[1].at = t_spike - get_delay
       /\ weight_ = depress_(Facilitated, kminus[1].value)
       /\ entry.start = entry.finish =>
            ks = <<>> /\ weight_ = depress_(entry.weight, kminus[1].value)
  /\ InDelivery => Kplus_ = entry.Kplus
  /\ Delivered => Kplus_ = Decayed + Scale

\* the first delivery ever, on an empty window, has depressed the weight
\* and advanced the trace
C8_Witness ==
  /\ Delivered
  /\ entry.t_lastspike = 0 /\ entry.start = entry.finish
  /\ InContract
  /\ kminus[1].value > 0
  /\ weight_ < entry.weight
  /\ Kplus_ = Scale

\* the event as send stamps it
Stamped ==
  [stamp |-> t_spike, receiver |-> get_target, weight |-> weight_,
   delay |-> get_delay_steps, rport |-> get_rport]

\* C9: each delivery forwards exactly one event; it carries the target, the
\* delay in steps, the receptor port and the weight after the facilitation
\* and depression steps, which is the weight the synapse holds when the
\* delivery returns; when it is forwarded the trace is still the one the
\* delivery was entered with
C9_OneEvent ==
  /\ pc \in {"loop", "forward"} => sent = <<>>
  /\ pc = "advance" =>
       /\ sent = <<Stamped>>
       /\ sent[1].weight = depress_(Facilitated, kminus[1].value)
       /\ Kplus_ = entry.Kplus
  /\ Delivered => sent = <<Stamped>>

\* an event has been forwarded with a weight that facilitation and
\* depression have changed, and the trace, not zero, is not yet advanced
C9_Witness ==
  /\ pc = "advance"
  /\ Len(ks) > 0 /\ kminus[1].value > 0
  /\ sent[1].weight # entry.weight
  /\ Kplus_ > 0

\* C10: when the provider hands back the window of its contract, minus_dt
\* is negative for every record read, the skip is never taken, and every
\* facilitation step has a trace magnitude no larger than the stored trace
C10_WindowNegative ==
  (InDelivery \/ Delivered) /\ InContract =>
    /\ \A j \in 1..Len(visited) : minus_dt_of(visited[j]) < 0
    /\ Len(ks) = Len(visited)
    /\ \A j \in 1..Len(ks) : ks[j] = k_of(visited[j]) /\ ks[j] <= entry.Kplus

\* a delivery on a window of two records has returned, with positive trace
\* magnitudes smaller than the stored trace
C10_Witness ==
  /\ Delivered /\ InContract
  /\ Len(visited) = 2
  /\ ks[1] > 0 /\ ks[1] < entry.Kplus
  /\ ks[2] > 0 /\ ks[2] < entry.Kplus

====
